---- MODULE Spec2Model ----
(***************************************************************************)
(* State-machine model of the ABAP analyzer: the React controller          *)
(* ABAPAnalyzer (src/analyzer.js) and the configuration endpoint           *)
(* GET /api/config (src/server.js).                                        *)
(*                                                                         *)
(* analyzer.js calls useEffect and renders <Server/> without importing     *)
(* either name; the model takes them to resolve to React's useEffect and   *)
(* the lucide-react icon, i.e. it models the handlers as they are written. *)
(* expandedSections/toggleSection is never reached from the rendered tree  *)
(* and is left out.                                                        *)
(***************************************************************************)
EXTENDS Integers, Sequences, FiniteSets, TLC

VARIABLES
    files,            \* useState([])            analyzer.js:8
    analysisSettings, \* useState({...})         analyzer.js:9
    isAnalyzing,      \* useState(false)         analyzer.js:17
    analysisResults,  \* useState(null)          analyzer.js:18
    error,            \* useState(null)          analyzer.js:19
    configLoaded,     \* useState(false)         analyzer.js:21
    configError,      \* useState(null)          analyzer.js:22
    configPc,         \* position of the mount effect: "mount", "pending", "done"
    configFetches,    \* number of GET /api/config requests the client has issued
    inFlight,         \* POST /api/analyze requests issued and not yet completed
    env,              \* process.env of the backend
    res               \* last response the config endpoint has sent

vars == <<files, analysisSettings, isAnalyzing, analysisResults, error,
          configLoaded, configError, configPc, configFetches, inFlight, env, res>>

clientVars == <<files, analysisSettings, isAnalyzing, analysisResults, error,
                configLoaded, configError, configPc, configFetches, inFlight>>

serverVars == <<env, res>>

----------------------------------------------------------------------------
(* Bounds *)

\* longest file list the model builds
MaxFiles == 2

\* most files in one selection of the file input
MaxSelect == 2

\* most analyze requests in flight at once
MaxInFlight == 2

----------------------------------------------------------------------------
(* JavaScript values *)

Undefined == [t |-> "undefined"]

Null == [t |-> "null"]

Str(s) == [t |-> "str", s |-> s]

Obj(id) == [t |-> "obj", id |-> id]

\* ToBoolean: undefined, null and '' are falsy, every other value here is truthy
Truthy(v) ==
    CASE v.t = "str" -> v.s # ""
      [] v.t \in {"undefined", "null"} -> FALSE
      [] OTHER -> TRUE

\* a || b
Or(a, b) == IF Truthy(a) THEN a ELSE b

\* obj.key on a parsed JSON object: undefined when the key is absent
Get(obj, key) == IF key \in DOMAIN obj THEN obj[key] ELSE Undefined

\* JSON.stringify followed by JSON.parse of an object literal: members whose
\* value is undefined are dropped
JsonRoundTrip(obj) ==
    [k \in {f \in DOMAIN obj : obj[f] # Undefined} |-> obj[k]]

----------------------------------------------------------------------------
(* File names: sequences of characters *)

dotabap == <<".", "a", "b", "a", "p">>

dotABAP == <<".", "A", "B", "A", "P">>

\* String.prototype.endsWith
EndsWith(name, suffix) ==
    /\ Len(name) >= Len(suffix)
    /\ SubSeq(name, Len(name) - Len(suffix) + 1, Len(name)) = suffix

\* the file names a user may select
FileNames ==
    { <<"a">> \o dotabap,
      <<"b">> \o dotABAP,
      <<"c", ".", "A", "b", "a", "p">>,
      <<"d", ".", "t", "x", "t">> }

File(name) == [name |-> name]

\* the FileLists an onChange event may deliver: distinct files, in any order
Selections ==
    { sel : sel \in
        { s \in UNION { [1..n -> {File(nm) : nm \in FileNames}] : n \in 0..MaxSelect } :
            \A i, j \in 1..Len(s) : s[i] = s[j] => i = j } }

----------------------------------------------------------------------------
(* Backend: GET /api/config *)

EnvValue(sample) == {Undefined, Str(""), Str(sample)}

\* process.env as the handler reads it: each variable unset, empty or set
Environments ==
    { [API_KEY |-> a, OPENAI_API_KEY |-> o, ANTHROPIC_API_KEY |-> n,
       API_PROVIDER |-> p, MODEL_NAME |-> m, API_BASE_URL |-> u] :
        a \in EnvValue("sk-api"), o \in EnvValue("sk-openai"),
        n \in EnvValue("sk-ant"), p \in EnvValue("openai"),
        m \in EnvValue("gpt-4o"), u \in EnvValue("http://llm.local") }

NoEnvironment ==
    [API_KEY |-> Undefined, OPENAI_API_KEY |-> Undefined,
     ANTHROPIC_API_KEY |-> Undefined, API_PROVIDER |-> Undefined,
     MODEL_NAME |-> Undefined, API_BASE_URL |-> Undefined]

NoResponse == [status |-> 0]

\* the object literal handed to res.json
ConfigObject(e) ==
    [apiKey |-> Or(Or(e.API_KEY, e.OPENAI_API_KEY), e.ANTHROPIC_API_KEY),
     apiProvider |-> Or(e.API_PROVIDER, Str("anthropic")),
     modelName |-> Or(e.MODEL_NAME, Str("claude-3-7-sonnet-20250219")),
     apiBaseUrl |-> Or(e.API_BASE_URL, Str(""))]

\* app.get('/api/config', ...): res.json serialises the object, status 200
GetConfig ==
    /\ res' = [status |-> 200, body |-> JsonRoundTrip(ConfigObject(env))]
    /\ UNCHANGED env
    /\ UNCHANGED clientVars

----------------------------------------------------------------------------
(* Client: initial state *)

availableAgents ==
    <<"functionality", "technical", "logic", "context", "documentation", "security">>

\* the agents whose checkbox the model toggles
ToggledAgents == {"security"}

OutputFormats == {"json", "markdown"}

InitialSettings ==
    [agents |-> <<"functionality", "technical", "logic", "context">>,
     model |-> Str("claude-3-7-sonnet-20250219"),
     outputFormat |-> "json",
     apiKey |-> Str(""),
     provider |-> Str("anthropic"),
     apiBaseUrl |-> Str("")]

ClientInit ==
    /\ files = <<>>
    /\ analysisSettings = InitialSettings
    /\ isAnalyzing = FALSE
    /\ analysisResults = Null
    /\ error = Null
    /\ configLoaded = FALSE
    /\ configError = Null
    /\ configPc = "mount"
    /\ configFetches = 0
    /\ inFlight = <<>>

Init ==
    /\ ClientInit
    /\ env = NoEnvironment
    /\ res = NoResponse

InitServer ==
    /\ ClientInit
    /\ env \in Environments
    /\ res = NoResponse

----------------------------------------------------------------------------
(* Client: configuration fetch on mount *)

\* bodies a 2xx answer to GET /api/config may carry once parsed
ConfigBodies ==
    { <<>>,
      JsonRoundTrip(ConfigObject(NoEnvironment)),
      JsonRoundTrip(ConfigObject([NoEnvironment EXCEPT !.API_KEY = Str("sk-api")])),
      [apiKey |-> Str("sk-openai"), apiProvider |-> Str("openai"),
       modelName |-> Str("gpt-4o"), apiBaseUrl |-> Str("http://llm.local")],
      [apiKey |-> Str(""), apiProvider |-> Str(""),
       modelName |-> Str(""), apiBaseUrl |-> Str("")],
      [apiKey |-> Str("sk-ant"), apiProvider |-> Null,
       modelName |-> Null, apiBaseUrl |-> Null] }

\* ways a fetch can fail: response.ok false, fetch rejects, response.json rejects
FailureKinds == {"non2xx", "network", "badjson"}

\* err.message in the catch block of fetchConfig
ConfigErrMessage(kind) ==
    CASE kind = "non2xx" -> "Failed to load configuration"
      [] kind = "network" -> "Failed to fetch"
      [] kind = "badjson" -> "Unexpected end of JSON input"

\* the updater reading config.provider and config.model, names the response lacks
MergeConfigWrongKeys(prev, config) ==
    [prev EXCEPT
        !.apiKey = Or(Get(config, "apiKey"), Str("")),
        !.provider = Or(Get(config, "provider"), Str("anthropic")),
        !.model = Or(Get(config, "model"), Str("claude-3-7-sonnet-20250219")),
        !.apiBaseUrl = Or(Get(config, "apiBaseUrl"), Str(""))]

\* the updater passed to setAnalysisSettings
MergeConfig(prev, config) ==
    [prev EXCEPT
        !.apiKey = Or(Get(config, "apiKey"), Str("")),
        !.provider = Or(Get(config, "apiProvider"), Str("anthropic")),
        !.model = Or(Get(config, "modelName"), Str("claude-3-7-sonnet-20250219")),
        !.apiBaseUrl = Or(Get(config, "apiBaseUrl"), Str(""))]

\* useEffect(..., []): the effect runs once after the first render
FetchConfigStart ==
    /\ configPc = "mount"
    /\ configPc' = "pending"
    /\ configFetches' = configFetches + 1
    /\ UNCHANGED <<files, analysisSettings, isAnalyzing, analysisResults, error,
                   configLoaded, configError, inFlight>>
    /\ UNCHANGED serverVars

FetchConfigOk(config) ==
    /\ configPc = "pending"
    /\ analysisSettings' = MergeConfig(analysisSettings, config)
    /\ configLoaded' = TRUE
    /\ configPc' = "done"
    /\ UNCHANGED <<files, isAnalyzing, analysisResults, error, configError,
                   configFetches, inFlight>>
    /\ UNCHANGED serverVars

\* the catch block reporting through setError instead of setConfigError
FetchConfigFailShared(kind) ==
    /\ configPc = "pending"
    /\ error' = Str(ConfigErrMessage(kind))
    /\ configPc' = "done"
    /\ UNCHANGED <<files, analysisSettings, isAnalyzing, analysisResults, configError,
                   configLoaded, configFetches, inFlight>>
    /\ UNCHANGED serverVars

FetchConfigFail(kind) ==
    /\ configPc = "pending"
    /\ configError' = Str(ConfigErrMessage(kind))
    /\ configPc' = "done"
    /\ UNCHANGED <<files, analysisSettings, isAnalyzing, analysisResults, error,
                   configLoaded, configFetches, inFlight>>
    /\ UNCHANGED serverVars

----------------------------------------------------------------------------
(* Client: file list and settings *)

ExtensionMessage == Str("Please select ABAP files (.abap extension)")

NoFileMessage == Str("Please upload at least one ABAP file")

NoApiKeyMessage == Str("Please provide an API key in settings")

\* the predicate of selectedFiles.filter, with the extension test dropped
IsAnyFile(file) == TRUE

\* the predicate of selectedFiles.filter
IsAbapFile(file) == EndsWith(file.name, dotabap) \/ EndsWith(file.name, dotABAP)

handleFileUpload(selectedFiles) ==
    LET abapFiles == SelectSeq(selectedFiles, IsAbapFile) IN
    /\ Len(files) + Len(abapFiles) <= MaxFiles
    /\ IF Len(abapFiles) = 0
       THEN /\ error' = ExtensionMessage
            /\ UNCHANGED files
       ELSE /\ files' = files \o abapFiles
            /\ error' = Null
    /\ UNCHANGED <<analysisSettings, isAnalyzing, analysisResults, configLoaded,
                   configError, configPc, configFetches, inFlight>>
    /\ UNCHANGED serverVars

\* index counts from 1 here, from 0 in the source
removeFile(index) ==
    /\ index \in 1..Len(files)
    /\ files' = SubSeq(files, 1, index - 1) \o SubSeq(files, index + 1, Len(files))
    /\ UNCHANGED <<analysisSettings, isAnalyzing, analysisResults, error,
                   configLoaded, configError, configPc, configFetches, inFlight>>
    /\ UNCHANGED serverVars

\* "Clear all", rendered while the list is non-empty
clearAll ==
    /\ Len(files) > 0
    /\ files' = <<>>
    /\ UNCHANGED <<analysisSettings, isAnalyzing, analysisResults, error,
                   configLoaded, configError, configPc, configFetches, inFlight>>
    /\ UNCHANGED serverVars

Includes(seq, x) == \E i \in 1..Len(seq) : seq[i] = x

toggleAgent(agentId) ==
    /\ analysisSettings' =
         [analysisSettings EXCEPT !.agents =
            IF Includes(@, agentId)
            THEN LET Keep(id) == id # agentId IN SelectSeq(@, Keep)
            ELSE Append(@, agentId)]
    /\ UNCHANGED <<files, isAnalyzing, analysisResults, error, configLoaded,
                   configError, configPc, configFetches, inFlight>>
    /\ UNCHANGED serverVars

setOutputFormat(value) ==
    /\ analysisSettings.outputFormat # value
    /\ analysisSettings' = [analysisSettings EXCEPT !.outputFormat = value]
    /\ UNCHANGED <<files, isAnalyzing, analysisResults, error, configLoaded,
                   configError, configPc, configFetches, inFlight>>
    /\ UNCHANGED serverVars

----------------------------------------------------------------------------
(* Client: analysis *)

\* bodies a 2xx answer to POST /api/analyze may carry once parsed
ResultBodies == {Obj("report-1"), Obj("report-2"), Null}

AnalyzeOutcomes ==
    {[kind |-> "ok", body |-> b] : b \in ResultBodies}
        \cup {[kind |-> k] : k \in FailureKinds}

\* err.message in the catch block of runAnalysis
AnalyzeErrMessage(kind) ==
    CASE kind = "non2xx" -> "Analysis failed"
      [] kind = "network" -> "Failed to fetch"
      [] kind = "badjson" -> "Unexpected end of JSON input"

\* the template literal of the catch block
AnalysisError(kind) == Str("Analysis failed: " \o AnalyzeErrMessage(kind))

\* the request handed to fetch: the files parts and the settings part
AnalyzeRequest == [files |-> files, settings |-> analysisSettings]

\* the second guard, never taken
ApiKeyNeverMissing == FALSE

\* the second guard of runAnalysis
ApiKeyMissing == ~Truthy(analysisSettings.apiKey)

\* the submit leaving the error as it is
SubmitErrorKept == error

\* the value runAnalysis gives error before the request
SubmitError == Null

\* runAnalysis up to its first await: the two guards, then the request
runAnalysis ==
    /\ IF Len(files) = 0
       THEN /\ error' = NoFileMessage
            /\ UNCHANGED <<isAnalyzing, inFlight>>
       ELSE IF ApiKeyMissing
       THEN /\ error' = NoApiKeyMessage
            /\ UNCHANGED <<isAnalyzing, inFlight>>
       ELSE /\ Len(inFlight) < MaxInFlight
            /\ isAnalyzing' = TRUE
            /\ error' = SubmitError
            /\ inFlight' = Append(inFlight, AnalyzeRequest)
    /\ UNCHANGED <<files, analysisSettings, analysisResults, configLoaded,
                   configError, configPc, configFetches>>
    /\ UNCHANGED serverVars

\* the disabled attribute without its isAnalyzing term
RunDisabledIgnoresBusy ==
    Len(files) = 0 \/ ~Truthy(analysisSettings.apiKey)

\* the disabled attribute of the Run button
RunDisabled ==
    isAnalyzing \/ Len(files) = 0 \/ ~Truthy(analysisSettings.apiKey)

\* onClick of the Run button
clickRun ==
    /\ ~RunDisabled
    /\ runAnalysis

\* setIsAnalyzing(false) at the end of the try block instead of in finally
AnalyzingAfterNoFinally(outcome) == outcome.kind # "ok"

\* the finally block: the value isAnalyzing gets whatever the outcome
AnalyzingAfter(outcome) == FALSE

\* runAnalysis after its awaits: request i is answered with outcome
completeAnalysis(i, outcome) ==
    /\ i \in 1..Len(inFlight)
    /\ inFlight' = SubSeq(inFlight, 1, i - 1) \o SubSeq(inFlight, i + 1, Len(inFlight))
    /\ IF outcome.kind = "ok"
       THEN /\ analysisResults' = outcome.body
            /\ UNCHANGED error
       ELSE /\ error' = AnalysisError(outcome.kind)
            /\ UNCHANGED analysisResults
    /\ isAnalyzing' = AnalyzingAfter(outcome)
    /\ UNCHANGED <<files, analysisSettings, configLoaded, configError, configPc,
                   configFetches>>
    /\ UNCHANGED serverVars

----------------------------------------------------------------------------
(* Specifications *)

FetchConfigDone ==
    \/ \E config \in ConfigBodies : FetchConfigOk(config)
    \/ \E kind \in FailureKinds : FetchConfigFail(kind)

UserEdits ==
    \/ \E selectedFiles \in Selections : handleFileUpload(selectedFiles)
    \/ \E index \in 1..MaxFiles + 1 : removeFile(index)
    \/ clearAll
    \/ \E agentId \in ToggledAgents : toggleAgent(agentId)
    \/ \E value \in OutputFormats : setOutputFormat(value)

Complete == \E i \in 1..MaxInFlight + 1, outcome \in AnalyzeOutcomes : completeAnalysis(i, outcome)

\* the component driven through its rendered controls
Next ==
    \/ FetchConfigStart
    \/ FetchConfigDone
    \/ UserEdits
    \/ clickRun
    \/ Complete

Spec == Init /\ [][Next]_vars

\* every issued analyze request is eventually answered
LiveSpec == Spec /\ WF_vars(Complete)

\* runAnalysis called while idle, past the Run button's disabled attribute
submitIdle ==
    /\ ~isAnalyzing
    /\ runAnalysis

NextDirect ==
    \/ FetchConfigStart
    \/ FetchConfigDone
    \/ UserEdits
    \/ submitIdle
    \/ Complete

SpecDirect == Init /\ [][NextDirect]_vars

\* the backend answering GET /api/config, for every environment
NextServer == GetConfig

SpecServer == InitServer /\ [][NextServer]_vars

----------------------------------------------------------------------------
(* Vocabulary of the properties *)

Lower(c) ==
    CASE c = "A" -> "a"
      [] c = "B" -> "b"
      [] c = "P" -> "p"
      [] OTHER -> c

LowerCase(name) == [i \in 1..Len(name) |-> Lower(name[i])]

\* the name ends with ".abap", letter case disregarded
HasAbapExtension(file) == EndsWith(LowerCase(file.name), dotabap)

Requests == 1..Len(inFlight)

Ok(body) == [kind |-> "ok", body |-> body]

Failed(kind) == [kind |-> kind]

AnalysisErrors == {AnalysisError(kind) : kind \in FailureKinds}

ConfigKeys == {"apiKey", "apiProvider", "modelName", "apiBaseUrl"}

\* the settings field each response key feeds, and its default
SettingOf(s, key) ==
    CASE key = "apiKey" -> s.apiKey
      [] key = "apiProvider" -> s.provider
      [] key = "modelName" -> s.model
      [] key = "apiBaseUrl" -> s.apiBaseUrl

DefaultOf(key) ==
    CASE key = "apiKey" -> Str("")
      [] key = "apiProvider" -> Str("anthropic")
      [] key = "modelName" -> Str("claude-3-7-sonnet-20250219")
      [] key = "apiBaseUrl" -> Str("")

----------------------------------------------------------------------------
(* C1 *)

\* C1: when an analyze request completes with a non-2xx status, the error
\* message carrying the failure detail is displayed and no results are
\* displayed (analysisResults is null, not the value of an earlier success).
C1_FailureShowsNoStaleResults ==
    [][\A i \in Requests :
         completeAnalysis(i, Failed("non2xx")) =>
            /\ error' = Str("Analysis failed: " \o AnalyzeErrMessage("non2xx"))
            /\ analysisResults' = Null]_vars

----------------------------------------------------------------------------
(* C2 *)

\* C2 as stated: when an analyze request completes with status 200 and
\* parseable JSON, analysisResults is the response body and error is null,
\* whatever happened while the request was in flight.
C2_SuccessClearsError ==
    [][\A i \in Requests : \A body \in ResultBodies :
         completeAnalysis(i, Ok(body)) =>
            /\ analysisResults' = body
            /\ error' = Null]_vars

\* C2 amended: when an analyze request completes with status 200 and
\* parseable JSON, analysisResults is the response body, isAnalyzing is
\* false, and the completion leaves error as it is: the submit has cleared
\* every earlier error, so error is null unless a selection without any
\* accepted file was made while the request was in flight, and then it is
\* the extension message.
C2_SuccessShowsResults ==
    [][\A i \in Requests : \A body \in ResultBodies :
         completeAnalysis(i, Ok(body)) =>
            /\ analysisResults' = body
            /\ ~isAnalyzing'
            /\ error' = error
            /\ error \in {Null, ExtensionMessage}]_vars

\* a success has completed with the extension message of an in-flight
\* selection still displayed
C2_Witness ==
    /\ analysisResults = Obj("report-2")
    /\ error = ExtensionMessage
    /\ ~isAnalyzing
    /\ inFlight = <<>>

----------------------------------------------------------------------------
(* C3 *)

\* C3: a submit whose guard fails never reaches the server. No step taken
\* with an empty file list or an empty API key issues a request; a submit
\* with no file sets the no-file message, a submit with files and an empty
\* API key sets the API-key message; both leave isAnalyzing false and
\* analysisResults as it was.
C3_GuardedSubmitStaysLocal ==
    /\ [][(Len(files) = 0 \/ ~Truthy(analysisSettings.apiKey)) =>
            Len(inFlight') <= Len(inFlight)]_vars
    /\ [][(submitIdle /\ Len(files) = 0) =>
            /\ error' = NoFileMessage
            /\ inFlight' = inFlight
            /\ ~isAnalyzing'
            /\ analysisResults' = analysisResults]_vars
    /\ [][(submitIdle /\ Len(files) > 0 /\ ~Truthy(analysisSettings.apiKey)) =>
            /\ error' = NoApiKeyMessage
            /\ inFlight' = inFlight
            /\ ~isAnalyzing'
            /\ analysisResults' = analysisResults]_vars

\* a submit with files and no API key has been refused
C3_Witness ==
    /\ error = NoApiKeyMessage
    /\ Len(files) > 0
    /\ ~Truthy(analysisSettings.apiKey)
    /\ ~isAnalyzing
    /\ inFlight = <<>>

----------------------------------------------------------------------------
(* C4 *)

\* the selections none of whose files has the .abap extension
SelectionsWithoutAbap ==
    { sel : sel \in
        { s \in Selections : \A k \in 1..Len(s) : ~HasAbapExtension(s[k]) } }

\* C4: file intake excludes every selected file whose extension does not
\* match: the file list never holds a file without the .abap extension, and
\* a selection none of whose files has it leaves the list unchanged and sets
\* the extension message.
C4_IntakeExcludesOtherExtensions ==
    /\ [](\A i \in 1..Len(files) : HasAbapExtension(files[i]))
    /\ [][\A selectedFiles \in SelectionsWithoutAbap :
            handleFileUpload(selectedFiles) =>
                (files' = files /\ error' = ExtensionMessage)]_vars

\* files were taken in, then a selection without a match was refused
C4_Witness ==
    /\ Len(files) = MaxFiles
    /\ \E i \in 1..Len(files) : EndsWith(files[i].name, dotABAP)
    /\ error = ExtensionMessage

----------------------------------------------------------------------------
(* C5 *)

\* C5: handleFileUpload accepts a selected file if and only if its name ends
\* with ".abap" compared without regard to letter case, and appends the
\* accepted files to the list in selection order.
C5_ExtensionTestIgnoresCase ==
    [][\A selectedFiles \in Selections :
         handleFileUpload(selectedFiles) =>
            LET accepted == SelectSeq(selectedFiles, HasAbapExtension) IN
            accepted # <<>> => files' = files \o accepted]_vars

----------------------------------------------------------------------------
(* C6 *)

\* C6 as stated: after a successful config fetch each of apiKey, provider,
\* model and apiBaseUrl equals the response's field whenever the response
\* has the field, whatever its value, and the default only when it is absent.
C6_DefaultsOnlyWhenAbsent ==
    [][\A config \in ConfigBodies :
         FetchConfigOk(config) =>
            \A key \in ConfigKeys :
                SettingOf(analysisSettings', key) =
                    IF key \in DOMAIN config THEN config[key] ELSE DefaultOf(key)]_vars

\* C6 amended: after a successful config fetch each of apiKey, provider,
\* model and apiBaseUrl equals the response's field when the response has it
\* with a truthy value (a non-empty string), and the default ('',
\* 'anthropic', 'claude-3-7-sonnet-20250219', '') when the field is absent
\* or present with a falsy value (empty string, null); agents and
\* outputFormat are kept and configLoaded becomes true.
C6_DefaultsWhenAbsentOrFalsy ==
    [][\A config \in ConfigBodies :
         FetchConfigOk(config) =>
            /\ \A key \in ConfigKeys :
                 SettingOf(analysisSettings', key) =
                    IF key \in DOMAIN config /\ Truthy(config[key])
                    THEN config[key]
                    ELSE DefaultOf(key)
            /\ analysisSettings'.agents = analysisSettings.agents
            /\ analysisSettings'.outputFormat = analysisSettings.outputFormat
            /\ configLoaded']_vars

\* a response with all four fields set has been merged
C6_Witness ==
    /\ configLoaded
    /\ analysisSettings.apiKey = Str("sk-openai")
    /\ analysisSettings.provider = Str("openai")
    /\ analysisSettings.model = Str("gpt-4o")
    /\ analysisSettings.apiBaseUrl = Str("http://llm.local")

----------------------------------------------------------------------------
(* C7 *)

\* the first of the three key variables that is present in the environment
FirstPresentKey(e) ==
    IF e.API_KEY # Undefined THEN e.API_KEY
    ELSE IF e.OPENAI_API_KEY # Undefined THEN e.OPENAI_API_KEY
    ELSE e.ANTHROPIC_API_KEY

ValueOrDefault(v, default) == IF v # Undefined THEN v ELSE default

\* C7: for every environment GET /api/config answers with a JSON object
\* holding apiKey, apiProvider, modelName and apiBaseUrl as strings, apiKey
\* being the first present of API_KEY, OPENAI_API_KEY, ANTHROPIC_API_KEY and
\* the others the value of their variable, or the default when it is absent;
\* the handler changes no state.
C7_ConfigHasFourStrings ==
    res # NoResponse =>
        /\ res.status = 200
        /\ DOMAIN res.body = ConfigKeys
        /\ \A key \in ConfigKeys : res.body[key].t = "str"
        /\ res.body["apiKey"] = FirstPresentKey(env)
        /\ res.body["apiProvider"] = ValueOrDefault(env.API_PROVIDER, Str("anthropic"))
        /\ res.body["modelName"] =
              ValueOrDefault(env.MODEL_NAME, Str("claude-3-7-sonnet-20250219"))
        /\ res.body["apiBaseUrl"] = ValueOrDefault(env.API_BASE_URL, Str(""))

----------------------------------------------------------------------------
(* C8 *)

\* C8: with runAnalysis reached only through the Run button, at most one
\* analyze request is in flight in every reachable state, and every issued
\* request carries at least one file and a non-empty API key.
C8_SingleRequestInFlight ==
    /\ Len(inFlight) <= 1
    /\ \A i \in Requests :
         /\ Len(inFlight[i].files) >= 1
         /\ inFlight[i].settings.apiKey.t = "str"
         /\ inFlight[i].settings.apiKey.s # ""

\* a request is in flight while the list and the key have since changed
C8_Witness ==
    /\ Len(inFlight) = 1
    /\ isAnalyzing
    /\ files = <<>>
    /\ Len(inFlight[1].files) = MaxFiles

----------------------------------------------------------------------------
(* C9 *)

\* C9: given that every issued analyze request is eventually answered, every
\* analysis that enters the analyzing state eventually leaves it with
\* isAnalyzing false; a 2xx answer with parseable JSON leaves the results
\* set and the Run button's busy term off, each of the three failures
\* (non-2xx, network failure, unparseable body) leaves its message
\* displayed and isAnalyzing false; no step but a click on the enabled Run
\* button issues a request, so a failed analysis is never retried.
C9_AnalysisAlwaysEnds ==
    /\ isAnalyzing ~> ~isAnalyzing
    /\ [][\A i \in Requests : \A body \in ResultBodies :
            completeAnalysis(i, Ok(body)) =>
                (~isAnalyzing' /\ analysisResults' = body)]_vars
    /\ [][\A i \in Requests : \A kind \in FailureKinds :
            completeAnalysis(i, Failed(kind)) =>
                /\ ~isAnalyzing'
                /\ error' \in AnalysisErrors
                /\ Truthy(error')
                /\ Len(inFlight') < Len(inFlight)]_vars
    /\ [][Len(inFlight') > Len(inFlight) =>
            (~isAnalyzing /\ error' = Null /\ isAnalyzing')]_vars

\* an analysis has ended on an unparseable body, its message displayed
C9_Witness ==
    /\ ~isAnalyzing
    /\ inFlight = <<>>
    /\ error = Str("Analysis failed: Unexpected end of JSON input")
    /\ Len(files) > 0
    /\ ~RunDisabled

----------------------------------------------------------------------------
(* C10 *)

ConfigErrors == {Str(ConfigErrMessage(kind)) : kind \in FailureKinds}

\* C10: a failed config fetch is stored separately: the step that sets
\* configError sets it to the failure message and leaves error, files,
\* analysisResults, isAnalyzing, analysisSettings and configLoaded (false)
\* unchanged; the config fetch is issued once and never retried.
C10_ConfigFailureKeptApart ==
    /\ [][(configPc = "pending" /\ configPc' = "done" /\ ~configLoaded') =>
            /\ configError' \in ConfigErrors
            /\ UNCHANGED <<error, files, analysisResults, isAnalyzing,
                           analysisSettings, configLoaded>>]_vars
    /\ [][configError' # configError =>
            /\ configError' \in ConfigErrors
            /\ UNCHANGED <<error, files, analysisResults, isAnalyzing,
                           analysisSettings, configLoaded>>]_vars
    /\ [](configError # Null => ~configLoaded)
    /\ [](configFetches <= 1)
    /\ [][configPc # "mount" => configFetches' = configFetches]_vars

\* the fetch has failed on a non-2xx answer and the user has worked on
C10_Witness ==
    /\ configError = Str("Failed to load configuration")
    /\ ~configLoaded
    /\ configFetches = 1
    /\ error = ExtensionMessage
    /\ Len(files) > 0

====
